---- MODULE Spec2Model ----
(***************************************************************************)
(* ProxLB daemon (src/finished/proxlb_daemon_english.py): the scheduler    *)
(* loop run_daemon, the maintenance/failure handler, the balancing engine, *)
(* the metrics collector and the target selector, over a Proxmox API       *)
(* whose responses are chosen by the environment.                          *)
(***************************************************************************)
EXTENDS Integers, Sequences, FiniteSets, TLC

\* ------------------------------------------------------------------------
\* The cluster the API reports on
\* ------------------------------------------------------------------------

\* proxmox.nodes.get(): the cluster members, in the order the API lists them.
ClusterNodes == <<"n1", "n2", "n3">>

Nodes == {ClusterNodes[i] : i \in DOMAIN ClusterNodes}

\* Cluster-wide unique workload ids; 101 and 102 are VMs, 103 is a container.
Workloads == {101, 102, 103}

WorkloadType(w) == IF w = 103 THEN "lxc" ELSE "qemu"

\* Number of cycles the cycle counter tells apart (it saturates there).
MaxCycle == 2

\* Node status documents the API can return (nodes(node).status.get()); the
\* 'cpu' fraction is held in hundredths (cpu = 10 is 0.10).
StatusData ==
    { [cpu |-> 0,  mem |-> 0, maxmem |-> 4],    \* score 0
      [cpu |-> 10, mem |-> 0, maxmem |-> 4],    \* score 10
      [cpu |-> 10, mem |-> 1, maxmem |-> 10],   \* score 20
      [cpu |-> 10, mem |-> 0, maxmem |-> 0] }   \* total memory reported as 0

ApiError == [ok |-> FALSE]

Ok(v) == [ok |-> TRUE, value |-> v]

StatusResponses == {ApiError} \cup {Ok(d) : d \in StatusData}

\* The nodes whose status document may carry maxmem = 0.
ZeroMemoryNodes == {"n2"}

\* What nodes(node).status.get() can answer for the node.
NodeStatusResponses(node) ==
    {r \in StatusResponses :
        (r.ok /\ r.value.maxmem = 0) => node \in ZeroMemoryNodes}

\* Results of a migrate.post(): the call raises and the workload stays, or the
\* call returns and the workload has moved.
PostResults == {"error", "done"}

\* ------------------------------------------------------------------------
\* Configuration (proxlb_app.yaml), read once in __init__
\* ------------------------------------------------------------------------

\* config.get("migration_threshold", 20)
migration_threshold == 20

\* maintenance_nodes: a list of node names, or None for an empty YAML value.
None == [none |-> TRUE]

List(S) == [none |-> FALSE, items |-> S]

Config(nodes, maintenance_nodes, dry_run) ==
    [nodes |-> nodes, maintenance_nodes |-> maintenance_nodes, dry_run |-> dry_run]

\* nodes: [] monitors every cluster node; ["n2", "n1"] leaves n3 unmonitored.
Configs ==
    { Config(<<>>, List({"n1"}), FALSE),
      Config(<<>>, List({"n1"}), TRUE),
      Config(<<>>, None, FALSE),
      Config(<<"n2", "n1">>, List({"n1"}), FALSE),
      Config(<<"n2", "n1">>, List({}), FALSE) }

VARIABLES
    cfg,            \* self.config / self.dry_run / self.maintenance_nodes
    host,           \* cluster: the node each workload runs on
    pc,             \* position of run_daemon
    cycle,          \* number of the current cycle (saturates at MaxCycle)
    all_nodes,      \* handle_maintenance_and_dead_nodes: all_nodes
    metrics,        \* the snapshot of the running phase (dict, insertion order)
    status,         \* gather_metrics: the status.get() answers, in order
    dead_nodes,     \* handle_maintenance_and_dead_nodes: dead_nodes
    resources,      \* handle_maintenance_and_dead_nodes: resources
    vms,            \* run_balancing_cycle: the qemu.get() answers, in order
    requests,       \* migrations decided in this cycle, in order
    calls,          \* API calls of this cycle, in order
    twin,           \* decisions of the same cycle run with dry_run flipped
    was_dead        \* history: dead_nodes of the handler's last completed pass

vars == <<cfg, host, pc, cycle, all_nodes, metrics, status, dead_nodes, resources, vms,
          requests, calls, twin, was_dead>>

locals == <<all_nodes, metrics, status, dead_nodes, resources, vms>>

\* ------------------------------------------------------------------------
\* Helpers
\* ------------------------------------------------------------------------

Range(s) == {s[i] : i \in DOMAIN s}

\* All orders in which the API may list the elements of S.
Orderings(S) ==
    {s \in [1..Cardinality(S) -> S] : \A i, j \in 1..Cardinality(S) : s[i] = s[j] => i = j}

RECURSIVE SetToSeq(_)
SetToSeq(S) ==
    IF S = {} THEN <<>>
    ELSE LET m == CHOOSE x \in S : \A y \in S : x <= y
         IN <<m>> \o SetToSeq(S \ {m})

Call(phase, op, arg) == [phase |-> phase, op |-> op, arg |-> arg]

\* dict.get(key, default)
Get(data, key, default) == IF key \in DOMAIN data THEN data[key] ELSE default

\* ------------------------------------------------------------------------
\* What the API answers from the cluster's state
\* ------------------------------------------------------------------------

NodesResponses == {ApiError, Ok(ClusterNodes)}

\* cluster.resources.get(): one entry per workload, then one per node.
ClusterResources(h) ==
    LET ws == SetToSeq(Workloads)
    IN [i \in 1..Len(ws) |-> [vmid |-> ws[i], type |-> WorkloadType(ws[i]), node |-> h[ws[i]]]]
       \o [i \in 1..Len(ClusterNodes) |-> [type |-> "node", node |-> ClusterNodes[i]]]

ResourcesResponses(h) == {ApiError, Ok(ClusterResources(h))}

\* nodes(node).qemu.get(): the VMs of the node, in any order.
QemuResponses(h, node) ==
    {ApiError} \cup
    {Ok(o) : o \in Orderings({w \in Workloads : h[w] = node /\ WorkloadType(w) = "qemu"})}

\* nodes(node).lxc.get(): the containers of the node, in any order.
LxcResponses(h, node) ==
    {ApiError} \cup
    {Ok(o) : o \in Orderings({w \in Workloads : h[w] = node /\ WorkloadType(w) = "lxc"})}

\* ------------------------------------------------------------------------
\* Metrics collector and target selector
\* ------------------------------------------------------------------------

\* metrics[node] = value on a dict that keeps insertion order
DictSet(d, node, value) ==
    IF \E i \in DOMAIN d : d[i].node = node
    THEN [i \in DOMAIN d |-> IF d[i].node = node THEN value ELSE d[i]]
    ELSE Append(d, value)

Keys(d) == [i \in DOMAIN d |-> d[i].node]

\* One pass of the per-node loop body; the try block absorbs a failed status
\* fetch and the ZeroDivisionError of maxmem = 0.
NodeMetrics(node, resp) ==
    IF ~resp.ok THEN ApiError
    ELSE LET data == resp.value
             cpu_percent == (Get(data, "cpu", 0) * 100) \div 100
             maxmem == Get(data, "maxmem", 1)
         IN IF maxmem = 0 THEN ApiError
            ELSE LET mem_percent == (Get(data, "mem", 0) * 100) \div maxmem
                 IN Ok([node |-> node, cpu_percent |-> cpu_percent,
                        mem_percent |-> mem_percent,
                        score |-> cpu_percent + mem_percent])

RECURSIVE GatherLoop(_, _, _, _, _)
GatherLoop(phase, nodes, i, statusResp, acc) ==
    IF i > Len(nodes) THEN acc
    ELSE LET node == nodes[i]
             m == NodeMetrics(node, statusResp[node])
             acc1 == [acc EXCEPT
                        !.calls = Append(@, Call(phase, "status.get", node)),
                        !.status = Append(@, [node |-> node, resp |-> statusResp[node]])]
         IN GatherLoop(phase, nodes, i + 1, statusResp,
                       IF m.ok THEN [acc1 EXCEPT !.metrics = DictSet(@, node, m.value)]
                       ELSE acc1)

\* gather_metrics asking for the node list whatever the configuration says.
gather_metrics_AlwaysLists(phase, nodesResp, statusResp, calls0) ==
    LET calls1 == Append(calls0, Call(phase, "nodes.get", "-"))
    IN IF ~nodesResp.ok
       THEN [exit |-> TRUE, metrics |-> <<>>, status |-> <<>>, calls |-> calls1]
       ELSE GatherLoop(phase, nodesResp.value, 1, statusResp,
                       [exit |-> FALSE, metrics |-> <<>>, status |-> <<>>, calls |-> calls1])

\* gather_metrics(): exit is the sys.exit(1) of a failed node-list fetch.
gather_metrics(phase, nodesResp, statusResp, calls0) ==
    IF cfg.nodes = <<>>
    THEN LET calls1 == Append(calls0, Call(phase, "nodes.get", "-"))
         IN IF ~nodesResp.ok
            THEN [exit |-> TRUE, metrics |-> <<>>, status |-> <<>>, calls |-> calls1]
            ELSE GatherLoop(phase, nodesResp.value, 1, statusResp,
                            [exit |-> FALSE, metrics |-> <<>>, status |-> <<>>,
                             calls |-> calls1])
    ELSE GatherLoop(phase, cfg.nodes, 1, statusResp,
                    [exit |-> FALSE, metrics |-> <<>>, status |-> <<>>, calls |-> calls0])

\* The nodes gather_metrics asks for their status.
MonitoredNodes == IF cfg.nodes = <<>> THEN Nodes ELSE Range(cfg.nodes)

\* The answers the status.get() calls of one gather_metrics run can get.
StatusAnswers ==
    {sr \in [MonitoredNodes -> StatusResponses] :
        \A n \in MonitoredNodes : sr[n] \in NodeStatusResponses(n)}

\* min(metrics.items(), key=score): the first item with the least score.
MinIndex(m) ==
    CHOOSE i \in DOMAIN m :
        /\ \A j \in DOMAIN m : m[i].score <= m[j].score
        /\ \A j \in DOMAIN m : j < i => m[j].score > m[i].score

\* The selector taking the last item of the snapshot instead of the least.
choose_target_node_Last(m) ==
    IF m = <<>> THEN None ELSE m[Len(m)]

choose_target_node(m) ==
    IF m = <<>> THEN None ELSE m[MinIndex(m)]

\* ------------------------------------------------------------------------
\* Migration submission
\* ------------------------------------------------------------------------

Request(phase, type, vmid, source, target, force, online, posted, result) ==
    [phase |-> phase, type |-> type, vmid |-> vmid, source |-> source,
     target |-> target, force |-> force, online |-> online,
     posted |-> posted, result |-> result]

\* Submit with the dry_run test lost: the call is made in dry-run mode too.
Submit_AlwaysPosts(dry_run, phase, type, vmid, source, target, force, online, result, st) ==
    [st EXCEPT
        !.requests = Append(@, Request(phase, type, vmid, source, target,
                                       force, online, TRUE, result)),
        !.calls = Append(@, Call(phase, type \o ".migrate.post", vmid)),
        !.host = IF result = "done" THEN [@ EXCEPT ![vmid] = target] ELSE @]

\* The part shared by all four submission sites: log the decision, and unless
\* dry_run call migrate.post, whose exception the try block absorbs.
Submit(dry_run, phase, type, vmid, source, target, force, online, result, st) ==
    IF dry_run
    THEN [st EXCEPT !.requests = Append(@, Request(phase, type, vmid, source, target,
                                                   force, online, FALSE, "skipped"))]
    ELSE [st EXCEPT
            !.requests = Append(@, Request(phase, type, vmid, source, target,
                                           force, online, TRUE, result)),
            !.calls = Append(@, Call(phase, type \o ".migrate.post", vmid)),
            !.host = IF result = "done" THEN [@ EXCEPT ![vmid] = target] ELSE @]

\* migrate_vm called with force=True.
migrate_vm_Forced(dry_run, vm_id, source_node, target_node, result, st) ==
    Submit(dry_run, "balancing", "qemu", vm_id, source_node, target_node,
           TRUE, TRUE, result, st)

\* migrate_vm(vm_id, source_node, target_node, force=False): online=1
migrate_vm(dry_run, vm_id, source_node, target_node, result, st) ==
    Submit(dry_run, "balancing", "qemu", vm_id, source_node, target_node,
           FALSE, TRUE, result, st)

\* migrate_ct(ct_id, source_node, target_node, force=False): no online parameter
migrate_ct(dry_run, ct_id, source_node, target_node, result, st) ==
    Submit(dry_run, "balancing", "lxc", ct_id, source_node, target_node,
           FALSE, FALSE, result, st)

\* get_vms answering a failed listing with a list it has from before.
get_vms_Stale(resp) == IF resp.ok THEN resp.value ELSE <<101>>

\* get_vms(node) / get_cts(node): a failed listing is returned as []
get_vms(resp) == IF resp.ok THEN resp.value ELSE <<>>

get_cts(resp) == IF resp.ok THEN resp.value ELSE <<>>

\* The results a migrate.post can give; none is drawn when dry_run skips it.
Results(dry_run) == IF dry_run THEN {"skipped"} ELSE PostResults

\* ------------------------------------------------------------------------
\* Balancing engine: run_balancing_cycle
\* ------------------------------------------------------------------------

\* The threshold test with the threshold lost: any heavier node counts.
IsOverloaded_AnyDifference(score_diff) == score_diff > 0

\* if score_diff >= self.migration_threshold
IsOverloaded(score_diff) == score_diff >= migration_threshold

\* The nodes of the snapshot whose workload list the loop fetches.
OverloadedNodes(m) ==
    IF m = <<>> THEN {}
    ELSE LET target == choose_target_node(m)
         IN {m[i].node : i \in {j \in DOMAIN m :
                 m[j].node # target.node /\ IsOverloaded(m[j].score - target.score)}}

\* The loop migrating every VM of an overloaded node, not the first alone.
RECURSIVE MigrateEach(_, _, _, _, _, _, _)
MigrateEach(dry_run, list, k, node, target, result, st) ==
    IF k > Len(list) THEN st
    ELSE MigrateEach(dry_run, list, k + 1, node, target, result,
                     migrate_vm(dry_run, list[k], node, target, result, st))

RECURSIVE BalanceLoop_EveryVm(_, _, _, _, _, _, _)
BalanceLoop_EveryVm(dry_run, m, i, target, qr, pr, st) ==
    IF i > Len(m) THEN st
    ELSE LET node == m[i].node
             score_diff == m[i].score - target.score
         IN IF node = target.node
            THEN BalanceLoop_EveryVm(dry_run, m, i + 1, target, qr, pr, st)
            ELSE IF IsOverloaded(score_diff)
            THEN LET list == get_vms(qr[node])
                     st1 == [st EXCEPT
                               !.calls = Append(@, Call("balancing", "qemu.get", node)),
                               !.vms = Append(@, [node |-> node, resp |-> qr[node]])]
                 IN BalanceLoop_EveryVm(dry_run, m, i + 1, target, qr, pr,
                        IF list # <<>>
                        THEN MigrateEach(dry_run, list, 1, node, target.node, pr[node], st1)
                        ELSE st1)
            ELSE BalanceLoop_EveryVm(dry_run, m, i + 1, target, qr, pr, st)

\* for node, data in metrics.items(): ...
RECURSIVE BalanceLoop(_, _, _, _, _, _, _)
BalanceLoop(dry_run, m, i, target, qr, pr, st) ==
    IF i > Len(m) THEN st
    ELSE LET node == m[i].node
             score_diff == m[i].score - target.score
         IN IF node = target.node
            THEN BalanceLoop(dry_run, m, i + 1, target, qr, pr, st)
            ELSE IF IsOverloaded(score_diff)
            THEN LET list == get_vms(qr[node])
                     st1 == [st EXCEPT
                               !.calls = Append(@, Call("balancing", "qemu.get", node)),
                               !.vms = Append(@, [node |-> node, resp |-> qr[node]])]
                 IN IF list # <<>>
                    THEN BalanceLoop(dry_run, m, i + 1, target, qr, pr,
                                     migrate_vm(dry_run, list[1], node, target.node,
                                                pr[node], st1))
                    ELSE BalanceLoop(dry_run, m, i + 1, target, qr, pr, st1)
            ELSE BalanceLoop(dry_run, m, i + 1, target, qr, pr, st)

\* run_balancing_cycle(): r2 and sr answer gather_metrics, qr the get_vms
\* calls and pr the migrate.post calls.
run_balancing_cycle(dry_run, r2, sr, qr, pr, st0) ==
    LET gm == gather_metrics("balancing", r2, sr, st0.calls)
        st1 == [st0 EXCEPT !.calls = gm.calls, !.metrics = gm.metrics,
                           !.status = gm.status]
    IN IF gm.exit THEN [st1 EXCEPT !.outcome = "exit"]
       ELSE IF gm.metrics = <<>> THEN [st1 EXCEPT !.outcome = "return"]
       ELSE [BalanceLoop(dry_run, gm.metrics, 1, choose_target_node(gm.metrics),
                         qr, pr, st1) EXCEPT !.outcome = "return"]

\* ------------------------------------------------------------------------
\* Maintenance/failure handler: handle_maintenance_and_dead_nodes
\* ------------------------------------------------------------------------

\* The classification taking every node of the node list for dead.
DeadNodes_All(all, alive) == all

\* dead_nodes = [node for node in all_nodes if node not in alive_nodes]
DeadNodes(all, alive) ==
    LET NotAlive(node) == node \notin Range(alive) IN SelectSeq(all, NotAlive)

\* resources_to_migrate: on a node to process, and a VM or a container
ResourcesToMigrate(res, nodes_to_process) ==
    LET Wanted(r) == /\ Get(r, "node", "-") \in nodes_to_process
                     /\ Get(r, "type", "-") \in {"qemu", "lxc"}
    IN SelectSeq(res, Wanted)

\* The candidate list without the maintenance filter.
CandidateNodes_Unfiltered(alive, maintenance_nodes) == alive

\* candidate_nodes = [node for node in alive_nodes if node not in maintenance_nodes]
CandidateNodes(alive, maintenance_nodes) ==
    LET Eligible(node) == node \notin maintenance_nodes IN SelectSeq(alive, Eligible)

Score(m, node) == m[CHOOSE i \in DOMAIN m : m[i].node = node].score

\* The arg-min loop with <= for <: among equal scores the last candidate wins.
RECURSIVE BestCandidate_LastOnTie(_, _, _, _)
BestCandidate_LastOnTie(candidates, m, i, best) ==
    IF i > Len(candidates) THEN best
    ELSE LET node == candidates[i]
         IN IF node \in Range(Keys(m))
                /\ (best = None \/ Score(m, node) <= Score(m, best.node))
            THEN BestCandidate_LastOnTie(candidates, m, i + 1,
                                         [none |-> FALSE, node |-> node])
            ELSE BestCandidate_LastOnTie(candidates, m, i + 1, best)

\* The arg-min loop over candidate_nodes: best_score starts at infinity and a
\* candidate replaces the target only when its score is strictly smaller.
RECURSIVE BestCandidate(_, _, _, _)
BestCandidate(candidates, m, i, best) ==
    IF i > Len(candidates) THEN best
    ELSE LET node == candidates[i]
         IN IF node \in Range(Keys(m))
                /\ (best = None \/ Score(m, node) < Score(m, best.node))
            THEN BestCandidate(candidates, m, i + 1, [none |-> FALSE, node |-> node])
            ELSE BestCandidate(candidates, m, i + 1, best)

\* The part of the handler up to the migration loop. proceed tells whether the
\* loop is reached; outcome is "return", "raise" (set(None)) or "exit".
MaintenancePlan(r1, r2, sr, rr, st0) ==
    LET calls1 == Append(st0.calls, Call("maintenance", "nodes.get", "-"))
        all == IF r1.ok THEN r1.value ELSE <<>>
        gm == gather_metrics("maintenance", r2, sr, calls1)
        alive_nodes == Keys(gm.metrics)
        dead == DeadNodes(all, alive_nodes)
        st1 == [st0 EXCEPT !.calls = gm.calls, !.all_nodes = all, !.metrics = gm.metrics,
                           !.status = gm.status]
        st2 == [st1 EXCEPT !.dead_nodes = dead]
    IN IF gm.exit THEN [st1 EXCEPT !.outcome = "exit"]
       ELSE IF cfg.maintenance_nodes = None THEN [st2 EXCEPT !.outcome = "raise"]
       ELSE LET maintenance_nodes == cfg.maintenance_nodes.items
                nodes_to_process == maintenance_nodes \cup Range(dead)
                st3 == [st2 EXCEPT
                          !.calls = Append(@, Call("maintenance", "cluster.resources.get", "-"))]
                res == IF rr.ok THEN rr.value ELSE <<>>
                rtm == ResourcesToMigrate(res, nodes_to_process)
                st4 == [st3 EXCEPT !.resources = res, !.resources_to_migrate = rtm]
                candidate_nodes == CandidateNodes(alive_nodes, maintenance_nodes)
            IN IF nodes_to_process = {} THEN [st2 EXCEPT !.outcome = "return"]
               ELSE IF rtm = <<>> THEN [st4 EXCEPT !.outcome = "return"]
               ELSE IF candidate_nodes = <<>> THEN [st4 EXCEPT !.outcome = "return"]
               ELSE [st4 EXCEPT !.outcome = "return", !.proceed = TRUE,
                                !.candidate_nodes = candidate_nodes]

\* for resource in resources_to_migrate: ...
RECURSIVE MaintenanceLoop(_, _, _, _)
MaintenanceLoop(dry_run, i, pr, st) ==
    IF i > Len(st.resources_to_migrate) THEN st
    ELSE LET resource == st.resources_to_migrate[i]
             best == BestCandidate(st.candidate_nodes, st.metrics, 1, None)
         IN IF best = None
            THEN MaintenanceLoop(dry_run, i + 1, pr, st)
            ELSE MaintenanceLoop(dry_run, i + 1, pr,
                     Submit(dry_run, "maintenance", resource.type, resource.vmid,
                            resource.node, best.node, TRUE, FALSE, pr[i], st))

handle_maintenance_and_dead_nodes(dry_run, plan, pr) ==
    IF plan.proceed THEN MaintenanceLoop(dry_run, 1, pr, plan) ELSE plan

\* ------------------------------------------------------------------------
\* Cycle scheduler: run_daemon
\* ------------------------------------------------------------------------

\* run_daemon with the two calls of the loop body swapped.
run_daemon_BalancingFirst(at, outcome) ==
    CASE outcome = "exit" -> "exited"
      [] outcome = "raise" -> "sleep"
      [] outcome = "return" /\ at = "balancing" -> "maintenance"
      [] outcome = "return" /\ at = "maintenance" -> "maintenance_done"
      [] outcome = "return" /\ at = "maintenance_done" -> "sleep"
      [] outcome = "return" /\ at = "sleep" -> "balancing"

\* run_daemon going to sleep when the handler has returned.
run_daemon_SkipBalancing(at, outcome) ==
    CASE outcome = "exit" -> "exited"
      [] outcome = "raise" -> "sleep"
      [] outcome = "return" /\ at = "maintenance" -> "maintenance_done"
      [] outcome = "return" /\ at = "maintenance_done" -> "sleep"
      [] outcome = "return" /\ at = "balancing" -> "sleep"
      [] outcome = "return" /\ at = "sleep" -> "maintenance"

\* run_daemon without the except clause around the loop body.
run_daemon_RaiseContinues(at, outcome) ==
    CASE outcome = "exit" -> "exited"
      [] outcome = "raise" -> "maintenance_done"
      [] outcome = "return" /\ at = "maintenance" -> "maintenance_done"
      [] outcome = "return" /\ at = "maintenance_done" -> "balancing"
      [] outcome = "return" /\ at = "balancing" -> "sleep"
      [] outcome = "return" /\ at = "sleep" -> "maintenance"

\* Where run_daemon continues after a phase ended with the given outcome:
\* the except clause catches Exception, and SystemExit is not one.
run_daemon(at, outcome) ==
    CASE outcome = "exit" -> "exited"
      [] outcome = "raise" -> "sleep"
      [] outcome = "return" /\ at = "maintenance" -> "maintenance_done"
      [] outcome = "return" /\ at = "maintenance_done" -> "balancing"
      [] outcome = "return" /\ at = "balancing" -> "sleep"
      [] outcome = "return" /\ at = "sleep" -> "maintenance"

\* The working state a phase starts from.
Frame ==
    [outcome |-> "return", proceed |-> FALSE, host |-> host, requests |-> requests,
     calls |-> calls, all_nodes |-> <<>>, metrics |-> <<>>, status |-> <<>>,
     dead_nodes |-> <<>>,
     resources |-> <<>>, resources_to_migrate |-> <<>>, candidate_nodes |-> <<>>,
     vms |-> <<>>]

\* What a request decides, apart from whether and how it was posted.
Decision(r) ==
    [phase |-> r.phase, type |-> r.type, vmid |-> r.vmid, source |-> r.source,
     target |-> r.target, force |-> r.force, online |-> r.online]

Decisions(rs) == [i \in DOMAIN rs |-> Decision(rs[i])]

\* st is the phase as run; alt is the same phase on the same API reads with
\* dry_run flipped.
Store(at, st, alt) ==
    /\ pc' = run_daemon(at, st.outcome)
    /\ twin' = twin \o Decisions(SubSeq(alt.requests, Len(requests) + 1, Len(alt.requests)))
    /\ host' = st.host
    /\ requests' = st.requests
    /\ calls' = st.calls
    /\ all_nodes' = st.all_nodes
    /\ metrics' = st.metrics
    /\ status' = st.status
    /\ dead_nodes' = st.dead_nodes
    /\ resources' = st.resources
    /\ vms' = st.vms

Init ==
    /\ cfg \in Configs
    /\ host \in [Workloads -> Nodes]
    /\ pc = "maintenance"
    /\ cycle = 1
    /\ all_nodes = <<>>
    /\ metrics = <<>>
    /\ status = <<>>
    /\ dead_nodes = <<>>
    /\ resources = <<>>
    /\ vms = <<>>
    /\ requests = <<>>
    /\ calls = <<>>
    /\ twin = <<>>
    /\ was_dead = {}

\* self.handle_maintenance_and_dead_nodes()
HandleMaintenance ==
    /\ pc = "maintenance"
    /\ \E r1 \in NodesResponses :
       \E r2 \in (IF cfg.nodes = <<>> THEN NodesResponses ELSE {ApiError}) :
       \E sr \in StatusAnswers :
       \E rr \in ResourcesResponses(host) :
          LET plan == MaintenancePlan(r1, r2, sr, rr, Frame)
              n == IF plan.proceed THEN Len(plan.resources_to_migrate) ELSE 0
          IN \E pr \in [1..n -> Results(cfg.dry_run)] :
                Store("maintenance",
                      handle_maintenance_and_dead_nodes(cfg.dry_run, plan, pr),
                      handle_maintenance_and_dead_nodes(~cfg.dry_run, plan,
                                                        [i \in 1..n |-> "error"]))
    /\ UNCHANGED <<cfg, cycle, was_dead>>

\* The handler has returned: its locals are gone, run_balancing_cycle is next.
HandlerReturns ==
    /\ pc = "maintenance_done"
    /\ pc' = run_daemon("maintenance_done", "return")
    /\ all_nodes' = <<>>
    /\ metrics' = <<>>
    /\ status' = <<>>
    /\ dead_nodes' = <<>>
    /\ resources' = <<>>
    /\ vms' = <<>>
    /\ UNCHANGED <<cfg, host, cycle, requests, calls, twin>>

ReturnFromMaintenance == HandlerReturns /\ UNCHANGED was_dead

\* self.run_balancing_cycle()
RunBalancingCycle ==
    /\ pc = "balancing"
    /\ \E r2 \in (IF cfg.nodes = <<>> THEN NodesResponses ELSE {ApiError}) :
       \E sr \in StatusAnswers :
          LET gm == gather_metrics("balancing", r2, sr, calls)
              over == IF gm.exit THEN {} ELSE OverloadedNodes(gm.metrics)
          IN \E qr \in {f \in [over -> UNION {QemuResponses(host, n) : n \in Nodes}] :
                            \A n \in over : f[n] \in QemuResponses(host, n)} :
             \E pr \in [{n \in over : get_vms(qr[n]) # <<>>} -> Results(cfg.dry_run)] :
                Store("balancing",
                      run_balancing_cycle(cfg.dry_run, r2, sr, qr, pr, Frame),
                      run_balancing_cycle(~cfg.dry_run, r2, sr, qr,
                                          [n \in Nodes |-> "error"], Frame))
    /\ UNCHANGED <<cfg, cycle, was_dead>>

\* time.sleep(self.check_interval), then the next pass of while True
Sleep ==
    /\ pc = "sleep"
    /\ pc' = run_daemon("sleep", "return")
    /\ cycle' = IF cycle < MaxCycle THEN cycle + 1 ELSE cycle
    /\ all_nodes' = <<>>
    /\ metrics' = <<>>
    /\ status' = <<>>
    /\ dead_nodes' = <<>>
    /\ resources' = <<>>
    /\ vms' = <<>>
    /\ requests' = <<>>
    /\ calls' = <<>>
    /\ twin' = <<>>
    /\ UNCHANGED <<cfg, host, was_dead>>

Next ==
    \/ HandleMaintenance
    \/ ReturnFromMaintenance
    \/ RunBalancingCycle
    \/ Sleep

Spec == Init /\ [][Next]_vars

\* ------------------------------------------------------------------------
\* The same daemon on an API that answers every call, completes every
\* submitted migration before the next cycle and reports the same load for
\* a node every time
\* ------------------------------------------------------------------------

\* The load the nodes keep: n1 has score 0, n2 score 10 and n3 score 20.
SteadyLoad ==
    [n \in Nodes |->
        IF n = "n1" THEN [cpu |-> 0, mem |-> 0, maxmem |-> 4]
        ELSE IF n = "n2" THEN [cpu |-> 10, mem |-> 0, maxmem |-> 4]
        ELSE [cpu |-> 10, mem |-> 1, maxmem |-> 10]]

\* Every API call of the step just taken was answered, with the steady load,
\* and every migrate.post was carried out.
ReliableApi ==
    /\ pc' # "exited"
    /\ \A i \in DOMAIN status' : status'[i].resp = Ok(SteadyLoad[status'[i].node])
    /\ \A i \in DOMAIN vms' : vms'[i].resp.ok
    /\ \A i \in DOMAIN requests' : requests'[i].result \in {"done", "skipped"}

ReliableHandleMaintenance ==
    /\ HandleMaintenance
    /\ ReliableApi
    /\ all_nodes' = ClusterNodes
    /\ \A i \in DOMAIN calls' :
          calls'[i].op = "cluster.resources.get" => resources' = ClusterResources(host)

ReliableRunBalancingCycle == RunBalancingCycle /\ ReliableApi

NextReliable ==
    \/ ReliableHandleMaintenance
    \/ ReturnFromMaintenance
    \/ ReliableRunBalancingCycle
    \/ Sleep

\* run_daemon's loop never blocks: each step is followed by the next one.
SpecReliable == Init /\ [][NextReliable]_vars /\ WF_vars(NextReliable)

\* ------------------------------------------------------------------------
\* The daemon of one configuration, with the dead nodes of each handler pass
\* remembered into the next cycle (the daemon itself keeps no such record)
\* ------------------------------------------------------------------------

\* One workload on each node: 101 on n1, 102 on n2, 103 on n3.
InitHistory ==
    /\ Init
    /\ cfg = Config(<<>>, List({"n1"}), FALSE)
    /\ host = [w \in Workloads |-> ClusterNodes[w - 100]]

ReturnNotingDead == HandlerReturns /\ was_dead' = Range(dead_nodes)

NextHistory ==
    \/ HandleMaintenance
    \/ ReturnNotingDead
    \/ RunBalancingCycle
    \/ Sleep

SpecHistory == InitHistory /\ [][NextHistory]_vars

\* ------------------------------------------------------------------------
\* The German variant (src/finished/proxlb_daemon_german.py), function by
\* function; the answers of the API and the dict and list operations are
\* those of the English variant
\* ------------------------------------------------------------------------

\* One pass of the per-node loop body; the try block absorbs a failed status
\* fetch and the ZeroDivisionError of maxmem = 0.
german_NodeMetrics(node, resp) ==
    IF ~resp.ok THEN ApiError
    ELSE LET data == resp.value
             cpu_percent == (Get(data, "cpu", 0) * 100) \div 100
             maxmem == Get(data, "maxmem", 1)
         IN IF maxmem = 0 THEN ApiError
            ELSE LET mem_percent == (Get(data, "mem", 0) * 100) \div maxmem
                 IN Ok([node |-> node, cpu_percent |-> cpu_percent,
                        mem_percent |-> mem_percent,
                        score |-> cpu_percent + mem_percent])

RECURSIVE german_GatherLoop(_, _, _, _, _)
german_GatherLoop(phase, nodes, i, statusResp, acc) ==
    IF i > Len(nodes) THEN acc
    ELSE LET node == nodes[i]
             m == german_NodeMetrics(node, statusResp[node])
             acc1 == [acc EXCEPT
                        !.calls = Append(@, Call(phase, "status.get", node)),
                        !.status = Append(@, [node |-> node, resp |-> statusResp[node]])]
         IN german_GatherLoop(phase, nodes, i + 1, statusResp,
                       IF m.ok THEN [acc1 EXCEPT !.metrics = DictSet(@, node, m.value)]
                       ELSE acc1)

\* german_gather_metrics(): exit is the sys.exit(1) of a failed node-list fetch.
german_gather_metrics(phase, nodesResp, statusResp, calls0) ==
    IF cfg.nodes = <<>>
    THEN LET calls1 == Append(calls0, Call(phase, "nodes.get", "-"))
         IN IF ~nodesResp.ok
            THEN [exit |-> TRUE, metrics |-> <<>>, status |-> <<>>, calls |-> calls1]
            ELSE german_GatherLoop(phase, nodesResp.value, 1, statusResp,
                            [exit |-> FALSE, metrics |-> <<>>, status |-> <<>>,
                             calls |-> calls1])
    ELSE german_GatherLoop(phase, cfg.nodes, 1, statusResp,
                    [exit |-> FALSE, metrics |-> <<>>, status |-> <<>>, calls |-> calls0])

german_choose_target_node(m) ==
    IF m = <<>> THEN None ELSE m[MinIndex(m)]

\* The part shared by all four submission sites: log the decision, and unless
\* dry_run call migrate.post, whose exception the try block absorbs.
german_Submit(dry_run, phase, type, vmid, source, target, force, online, result, st) ==
    IF dry_run
    THEN [st EXCEPT !.requests = Append(@, Request(phase, type, vmid, source, target,
                                                   force, online, FALSE, "skipped"))]
    ELSE [st EXCEPT
            !.requests = Append(@, Request(phase, type, vmid, source, target,
                                           force, online, TRUE, result)),
            !.calls = Append(@, Call(phase, type \o ".migrate.post", vmid)),
            !.host = IF result = "done" THEN [@ EXCEPT ![vmid] = target] ELSE @]

\* The German migrate_vm without the online parameter.
german_migrate_vm_Offline(dry_run, vm_id, source_node, target_node, result, st) ==
    german_Submit(dry_run, "balancing", "qemu", vm_id, source_node, target_node,
                  FALSE, FALSE, result, st)

\* german_migrate_vm(vm_id, source_node, target_node, force=False): online=1
german_migrate_vm(dry_run, vm_id, source_node, target_node, result, st) ==
    german_Submit(dry_run, "balancing", "qemu", vm_id, source_node, target_node,
           FALSE, TRUE, result, st)

\* german_get_vms(node) / get_cts(node): a failed listing is returned as []
german_get_vms(resp) == IF resp.ok THEN resp.value ELSE <<>>

\* if score_diff >= self.migration_threshold
german_IsOverloaded(score_diff) == score_diff >= migration_threshold

\* for node, data in metrics.items(): ...
RECURSIVE german_BalanceLoop(_, _, _, _, _, _, _)
german_BalanceLoop(dry_run, m, i, target, qr, pr, st) ==
    IF i > Len(m) THEN st
    ELSE LET node == m[i].node
             score_diff == m[i].score - target.score
         IN IF node = target.node
            THEN german_BalanceLoop(dry_run, m, i + 1, target, qr, pr, st)
            ELSE IF german_IsOverloaded(score_diff)
            THEN LET list == german_get_vms(qr[node])
                     st1 == [st EXCEPT
                               !.calls = Append(@, Call("balancing", "qemu.get", node)),
                               !.vms = Append(@, [node |-> node, resp |-> qr[node]])]
                 IN IF list # <<>>
                    THEN german_BalanceLoop(dry_run, m, i + 1, target, qr, pr,
                                     german_migrate_vm(dry_run, list[1], node, target.node,
                                                pr[node], st1))
                    ELSE german_BalanceLoop(dry_run, m, i + 1, target, qr, pr, st1)
            ELSE german_BalanceLoop(dry_run, m, i + 1, target, qr, pr, st)

\* german_run_balancing_cycle(): r2 and sr answer gather_metrics, qr the get_vms
\* calls and pr the migrate.post calls.
german_run_balancing_cycle(dry_run, r2, sr, qr, pr, st0) ==
    LET gm == german_gather_metrics("balancing", r2, sr, st0.calls)
        st1 == [st0 EXCEPT !.calls = gm.calls, !.metrics = gm.metrics,
                           !.status = gm.status]
    IN IF gm.exit THEN [st1 EXCEPT !.outcome = "exit"]
       ELSE IF gm.metrics = <<>> THEN [st1 EXCEPT !.outcome = "return"]
       ELSE [german_BalanceLoop(dry_run, gm.metrics, 1, german_choose_target_node(gm.metrics),
                         qr, pr, st1) EXCEPT !.outcome = "return"]

\* dead_nodes = [node for node in all_nodes if node not in alive_nodes]
german_DeadNodes(all, alive) ==
    LET NotAlive(node) == node \notin Range(alive) IN SelectSeq(all, NotAlive)

\* resources_to_migrate: on a node to process, and a VM or a container
german_ResourcesToMigrate(res, nodes_to_process) ==
    LET Wanted(r) == /\ Get(r, "node", "-") \in nodes_to_process
                     /\ Get(r, "type", "-") \in {"qemu", "lxc"}
    IN SelectSeq(res, Wanted)

\* candidate_nodes = [node for node in alive_nodes if node not in maintenance_nodes]
german_CandidateNodes(alive, maintenance_nodes) ==
    LET Eligible(node) == node \notin maintenance_nodes IN SelectSeq(alive, Eligible)

\* The arg-min loop over candidate_nodes: best_score starts at infinity and a
\* candidate replaces the target only when its score is strictly smaller.
RECURSIVE german_BestCandidate(_, _, _, _)
german_BestCandidate(candidates, m, i, best) ==
    IF i > Len(candidates) THEN best
    ELSE LET node == candidates[i]
         IN IF node \in Range(Keys(m))
                /\ (best = None \/ Score(m, node) < Score(m, best.node))
            THEN german_BestCandidate(candidates, m, i + 1, [none |-> FALSE, node |-> node])
            ELSE german_BestCandidate(candidates, m, i + 1, best)

\* The part of the handler up to the migration loop. proceed tells whether the
\* loop is reached; outcome is "return", "raise" (set(None)) or "exit".
german_MaintenancePlan(r1, r2, sr, rr, st0) ==
    LET calls1 == Append(st0.calls, Call("maintenance", "nodes.get", "-"))
        all == IF r1.ok THEN r1.value ELSE <<>>
        gm == german_gather_metrics("maintenance", r2, sr, calls1)
        alive_nodes == Keys(gm.metrics)
        dead == german_DeadNodes(all, alive_nodes)
        st1 == [st0 EXCEPT !.calls = gm.calls, !.all_nodes = all, !.metrics = gm.metrics,
                           !.status = gm.status]
        st2 == [st1 EXCEPT !.dead_nodes = dead]
    IN IF gm.exit THEN [st1 EXCEPT !.outcome = "exit"]
       ELSE IF cfg.maintenance_nodes = None THEN [st2 EXCEPT !.outcome = "raise"]
       ELSE LET maintenance_nodes == cfg.maintenance_nodes.items
                nodes_to_process == maintenance_nodes \cup Range(dead)
                st3 == [st2 EXCEPT
                          !.calls = Append(@, Call("maintenance", "cluster.resources.get", "-"))]
                res == IF rr.ok THEN rr.value ELSE <<>>
                rtm == german_ResourcesToMigrate(res, nodes_to_process)
                st4 == [st3 EXCEPT !.resources = res, !.resources_to_migrate = rtm]
                candidate_nodes == german_CandidateNodes(alive_nodes, maintenance_nodes)
            IN IF nodes_to_process = {} THEN [st2 EXCEPT !.outcome = "return"]
               ELSE IF rtm = <<>> THEN [st4 EXCEPT !.outcome = "return"]
               ELSE IF candidate_nodes = <<>> THEN [st4 EXCEPT !.outcome = "return"]
               ELSE [st4 EXCEPT !.outcome = "return", !.proceed = TRUE,
                                !.candidate_nodes = candidate_nodes]

\* for resource in resources_to_migrate: ...
RECURSIVE german_MaintenanceLoop(_, _, _, _)
german_MaintenanceLoop(dry_run, i, pr, st) ==
    IF i > Len(st.resources_to_migrate) THEN st
    ELSE LET resource == st.resources_to_migrate[i]
             best == german_BestCandidate(st.candidate_nodes, st.metrics, 1, None)
         IN IF best = None
            THEN german_MaintenanceLoop(dry_run, i + 1, pr, st)
            ELSE german_MaintenanceLoop(dry_run, i + 1, pr,
                     german_Submit(dry_run, "maintenance", resource.type, resource.vmid,
                            resource.node, best.node, TRUE, FALSE, pr[i], st))

german_handle_maintenance_and_dead_nodes(dry_run, plan, pr) ==
    IF plan.proceed THEN german_MaintenanceLoop(dry_run, 1, pr, plan) ELSE plan

\* Where run_daemon continues after a phase ended with the given outcome:
\* the except clause catches Exception, and SystemExit is not one.
german_run_daemon(at, outcome) ==
    CASE outcome = "exit" -> "exited"
      [] outcome = "raise" -> "sleep"
      [] outcome = "return" /\ at = "maintenance" -> "maintenance_done"
      [] outcome = "return" /\ at = "maintenance_done" -> "balancing"
      [] outcome = "return" /\ at = "balancing" -> "sleep"
      [] outcome = "return" /\ at = "sleep" -> "maintenance"

\* ------------------------------------------------------------------------
\* Properties
\* ------------------------------------------------------------------------

\* The phase that made the last API call of the cycle.
LastPhase == IF calls = <<>> THEN "none" ELSE calls[Len(calls)].phase

MaintenanceSet ==
    IF cfg.maintenance_nodes = None THEN {} ELSE cfg.maintenance_nodes.items

SnapshotKeys == Range(Keys(metrics))

RequestsOf(phase) == {i \in DOMAIN requests : requests[i].phase = phase}

CallsOf(phase, op) == {i \in DOMAIN calls : calls[i].phase = phase /\ calls[i].op = op}

IsMigratePost(call) == call.op \in {"qemu.migrate.post", "lxc.migrate.post"}

LeastScore == CHOOSE v \in {metrics[i].score : i \in DOMAIN metrics} :
                  \A i \in DOMAIN metrics : v <= metrics[i].score

\* The balancing phase has run to its end and its snapshot is in metrics.
BalancingDone == pc = "sleep" /\ LastPhase = "balancing"

\* The maintenance/failure handler has returned and its locals are in place.
MaintenanceDone == pc = "maintenance_done"

\* C1: no submitted migration request, of either phase, has its target in the
\* configured maintenance set.
C1_NoMaintenanceTarget ==
    \A i \in DOMAIN requests :
        requests[i].posted => requests[i].target \notin MaintenanceSet

\* C2: no error inside a cycle terminates the scheduler: the process never
\* leaves the loop.
C2_NeverTerminates == pc # "exited"

\* gather_metrics of the balancing phase asked for the node list and, having
\* no node list, asked no node for its status.
BalancingNodeListFailed ==
    /\ cfg.nodes = <<>>
    /\ CallsOf("balancing", "nodes.get") # {}
    /\ CallsOf("balancing", "status.get") = {}

\* C3: when the node-list fetch of the metrics collection fails, the snapshot
\* is empty, the balancing phase ends without a migration request and the
\* scheduler goes on to its sleep step.
C3_NodeListFailureShortCircuits ==
    BalancingNodeListFailed =>
        /\ pc = "sleep"
        /\ metrics = <<>>
        /\ RequestsOf("balancing") = {}

\* C4: within one cycle at most one migration request is submitted for any
\* workload id, the requests of both phases counted together.
C4_AtMostOneRequestPerWorkload ==
    \A i, j \in DOMAIN requests :
        (requests[i].posted /\ requests[j].posted /\ requests[i].vmid = requests[j].vmid)
            => i = j

\* C5: after the balancing phase, no request of that phase has as its source a
\* snapshot node whose score is less than the threshold above the least
\* score, and no node is both source and target of requests of that phase.
C5_BelowThresholdNoMigration ==
    BalancingDone =>
        /\ \A i \in DOMAIN metrics :
              metrics[i].score - LeastScore < migration_threshold
                  => \A k \in RequestsOf("balancing") : requests[k].source # metrics[i].node
        /\ \A k, l \in RequestsOf("balancing") : requests[k].source # requests[l].target

C5_Witness ==
    /\ BalancingDone
    /\ RequestsOf("balancing") # {}
    /\ \E i \in DOMAIN metrics :
          /\ metrics[i].score - LeastScore > 0
          /\ metrics[i].score - LeastScore < migration_threshold
          /\ \E w \in Workloads : WorkloadType(w) = "qemu" /\ host[w] = metrics[i].node

\* The qemu.get() of the balancing phase answered for the node.
VmListFetched(node) == \E i \in DOMAIN vms : vms[i].node = node /\ vms[i].resp.ok

\* C6: after the balancing phase, every snapshot node that is not the target,
\* lies at least the threshold above the least score and hosts a workload (VM
\* or container) is the source of exactly one request of that phase.
C6_OverloadedNodeMigratesOne ==
    BalancingDone =>
        \A i \in DOMAIN metrics :
            ( /\ metrics[i].score - LeastScore >= migration_threshold
              /\ VmListFetched(metrics[i].node)
              /\ \E w \in Workloads : host[w] = metrics[i].node )
            => Cardinality({k \in RequestsOf("balancing") :
                               requests[k].source = metrics[i].node}) = 1

\* C7: the handler classifies as dead exactly the nodes of the node list that
\* are missing from its snapshot, and when an eligible node exists it decides
\* for every VM and container listed on a dead node one forced migration, to
\* a snapshot node outside the maintenance set with the least score of those,
\* and submits it unless dry_run is set.
C7_DeadNodesEvacuated ==
    MaintenanceDone =>
        /\ Range(dead_nodes) = Range(all_nodes) \ SnapshotKeys
        /\ LET eligible == {i \in DOMAIN metrics : metrics[i].node \notin MaintenanceSet}
           IN eligible # {} =>
              \A k \in DOMAIN resources :
                 ( /\ resources[k].type \in {"qemu", "lxc"}
                   /\ resources[k].node \in Range(all_nodes) \ SnapshotKeys )
                 => /\ Cardinality({r \in RequestsOf("maintenance") :
                                       requests[r].vmid = resources[k].vmid}) = 1
                    /\ \A r \in RequestsOf("maintenance") :
                          requests[r].vmid = resources[k].vmid =>
                             /\ requests[r].force
                             /\ requests[r].type = resources[k].type
                             /\ requests[r].source = resources[k].node
                             /\ requests[r].posted = ~cfg.dry_run
                             /\ \E t \in eligible :
                                   /\ metrics[t].node = requests[r].target
                                   /\ \A u \in eligible : metrics[t].score <= metrics[u].score

C7_Witness ==
    /\ MaintenanceDone
    /\ MaintenanceSet # {}
    /\ \E i, j \in DOMAIN metrics :
          /\ metrics[i].node \in MaintenanceSet
          /\ metrics[j].node \notin MaintenanceSet
          /\ metrics[i].score < metrics[j].score
    /\ \E r \in RequestsOf("maintenance") :
          requests[r].source \in Range(dead_nodes) /\ requests[r].posted

\* C8: a cycle decides the same migrations with dry_run on as with dry_run
\* off on the same API reads, and with dry_run on no migrate.post is called.
C8_DryRunSameDecisions ==
    /\ Decisions(requests) = twin
    /\ cfg.dry_run =>
          /\ \A i \in DOMAIN calls : ~IsMigratePost(calls[i])
          /\ \A i \in DOMAIN requests : ~requests[i].posted

C8_Witness ==
    /\ cfg.dry_run
    /\ RequestsOf("maintenance") # {}
    /\ RequestsOf("balancing") # {}

\* C9: the balancing phase starts only when the maintenance/failure handler
\* has returned, a cycle starts only from the sleep step of the one before,
\* and within a cycle no maintenance call follows a balancing call.
C9_PhaseOrder ==
    [][ /\ (pc' = "balancing" => pc \in {"maintenance_done", "balancing"})
        /\ (pc' = "maintenance" => pc \in {"sleep", "maintenance"})
        /\ (cycle' # cycle => pc = "sleep" /\ pc' = "maintenance" /\ calls' = <<>>)
        /\ \A i, j \in DOMAIN calls' :
              (calls'[i].phase = "balancing" /\ calls'[j].phase = "maintenance") => j < i
      ]_vars

C9_Witness ==
    /\ cycle = MaxCycle
    /\ pc = "sleep"
    /\ CallsOf("maintenance", "cluster.resources.get") # {}
    /\ CallsOf("balancing", "qemu.get") # {}

\* C10: target selection returns none for an empty snapshot and otherwise an
\* item of the snapshot whose score no item undercuts; the target of every
\* balancing request is such a node.
C10_TargetIsMinimum ==
    /\ metrics = <<>> => choose_target_node(metrics) = None
    /\ metrics # <<>> =>
          /\ choose_target_node(metrics) \in Range(metrics)
          /\ \A i \in DOMAIN metrics : choose_target_node(metrics).score <= metrics[i].score
    /\ BalancingDone =>
          \A k \in RequestsOf("balancing") :
             \E t \in DOMAIN metrics :
                /\ metrics[t].node = requests[k].target
                /\ metrics[t].score = LeastScore

C10_Witness ==
    /\ BalancingDone
    /\ Len(metrics) = 3
    /\ metrics[1].score > metrics[2].score
    /\ metrics[2].score = metrics[3].score
    /\ \E k \in RequestsOf("balancing") : requests[k].target = metrics[2].node

\* The handler has stopped, by returning, raising or exiting, and what it
\* stored is still in place.
HandlerStopped ==
    /\ pc \in {"maintenance_done", "sleep", "exited"}
    /\ LastPhase = "maintenance"

\* The score the status document gives when a total memory of 0 is taken as 1.
GuardedScore(data) ==
    LET maxmem == IF data.maxmem = 0 THEN 1 ELSE data.maxmem
    IN (data.cpu * 100) \div 100 + (data.mem * 100) \div maxmem

\* C11: a node whose status reports a total memory of 0 is in the snapshot,
\* with the score its memory share over a denominator of 1 gives, and the
\* handler does not classify it as dead.
C11_ZeroMemoryNodeKept ==
    \A i \in DOMAIN status :
        (status[i].resp.ok /\ status[i].resp.value.maxmem = 0) =>
            /\ \E k \in DOMAIN metrics :
                  /\ metrics[k].node = status[i].node
                  /\ metrics[k].score = GuardedScore(status[i].resp.value)
            /\ status[i].node \notin Range(dead_nodes)

\* C12: a node whose status fetch fails is left out of the snapshot and the
\* phase goes on; every node whose status fetch succeeds is in the snapshot
\* with the score of its status document.
C12_FailedFetchOmitsOnlyThatNode ==
    \A i \in DOMAIN status :
        /\ ~status[i].resp.ok =>
              /\ status[i].node \notin SnapshotKeys
              /\ pc # "exited"
              /\ (HandlerStopped /\ cfg.maintenance_nodes # None) => pc = "maintenance_done"
        /\ status[i].resp.ok =>
              \E k \in DOMAIN metrics :
                 /\ metrics[k].node = status[i].node
                 /\ metrics[k].score = GuardedScore(status[i].resp.value)

\* The handler found a VM or container on a node to process and no snapshot
\* node outside the maintenance set.
EvacuationWithoutCandidate ==
    /\ HandlerStopped
    /\ cfg.maintenance_nodes # None
    /\ \E k \in DOMAIN resources :
          /\ resources[k].type \in {"qemu", "lxc"}
          /\ resources[k].node \in MaintenanceSet \cup Range(dead_nodes)
    /\ SnapshotKeys \ MaintenanceSet = {}

\* C13: when workloads are to be evacuated and no snapshot node lies outside
\* the maintenance set, the handler makes no request and returns, and the
\* balancing phase of the same cycle is the next step.
C13_NoCandidateNoRequests ==
    [][ EvacuationWithoutCandidate =>
          /\ RequestsOf("maintenance") = {}
          /\ pc = "maintenance_done"
          /\ pc' = "balancing"
          /\ cycle' = cycle
      ]_vars

C13_Witness ==
    /\ EvacuationWithoutCandidate
    /\ metrics # <<>>
    /\ \E k \in DOMAIN resources : resources[k].node \in Range(dead_nodes)

\* C14: a migrate call that fails does not end the loop it was made in:
\* the handler still decides a request for every workload it set out to move
\* and the balancing phase for every overloaded node with a VM; and the
\* cycle has no second request for the workload of a failed one.
C14_FailedRequestNotRetried ==
    /\ (MaintenanceDone /\ SnapshotKeys \ MaintenanceSet # {}) =>
          \A k \in DOMAIN resources :
             ( /\ resources[k].type \in {"qemu", "lxc"}
               /\ resources[k].node \in MaintenanceSet \cup Range(dead_nodes) )
             => \E r \in RequestsOf("maintenance") : requests[r].vmid = resources[k].vmid
    /\ BalancingDone =>
          \A i \in DOMAIN vms :
             (vms[i].resp.ok /\ vms[i].resp.value # <<>>)
             => \E r \in RequestsOf("balancing") : requests[r].source = vms[i].node
    /\ \A i, j \in DOMAIN requests :
          (requests[i].result = "error" /\ i # j) => requests[j].vmid # requests[i].vmid

\* The nodes.get() at the head of the handler failed.
MaintenanceNodeListFailed ==
    /\ HandlerStopped
    /\ all_nodes = <<>>

\* C15: when the node-list fetch of the handler fails, the handler makes no
\* forced migration request in that cycle, for maintenance nodes neither,
\* and the process keeps running.
C15_NodeListFailureAbortsHandler ==
    MaintenanceNodeListFailed =>
        /\ RequestsOf("maintenance") = {}
        /\ pc # "exited"

\* C16: every request of the handler carries force, for a VM and for a
\* container alike, and no request of the balancing phase does.
C16_ForceOnlyInMaintenance ==
    \A i \in DOMAIN requests :
        /\ requests[i].phase = "maintenance" => requests[i].force
        /\ requests[i].phase = "balancing" => ~requests[i].force

C16_Witness ==
    /\ \E i \in RequestsOf("maintenance") : requests[i].type = "qemu" /\ requests[i].posted
    /\ \E i \in RequestsOf("maintenance") : requests[i].type = "lxc" /\ requests[i].posted
    /\ \E i \in RequestsOf("balancing") : requests[i].posted

\* C17: the balancing phase migrates a VM online and a container offline, and
\* an overloaded snapshot node that hosts containers and no VM is the source
\* of one offline container request.
C17_ContainerMigratedOffline ==
    BalancingDone =>
        /\ \A k \in RequestsOf("balancing") :
              requests[k].online = (requests[k].type = "qemu")
        /\ \A i \in DOMAIN metrics :
              ( /\ metrics[i].score - LeastScore >= migration_threshold
                /\ \E j \in DOMAIN vms :
                      /\ vms[j].node = metrics[i].node
                      /\ vms[j].resp = Ok(<<>>)
                /\ \E w \in Workloads :
                      WorkloadType(w) = "lxc" /\ host[w] = metrics[i].node )
              => Cardinality({k \in RequestsOf("balancing") :
                                 /\ requests[k].source = metrics[i].node
                                 /\ requests[k].type = "lxc"
                                 /\ ~requests[k].online}) = 1

\* C18: on an API that answers every call, carries out every migration and
\* reports steady loads, no step puts a workload on a node of the
\* maintenance set, so that a maintenance node once empty stays empty.
C18_MaintenanceNodesStayEmpty ==
    [][ \A w \in Workloads :
           host'[w] \in MaintenanceSet => host'[w] = host[w] ]_vars

\* The nodes the handler took for dead, as its requests of this cycle show:
\* it moves workloads off maintenance nodes and dead nodes only.
EvacuatedDeadNodes ==
    {requests[i].source : i \in RequestsOf("maintenance")} \ MaintenanceSet

\* C19: the target of every request is a node of the snapshot of the phase
\* that makes it and not a node classified dead in that cycle; a node the
\* handler classified dead is not the balancing target of the same cycle.
C19_TargetAliveInSnapshot ==
    /\ MaintenanceDone =>
          \A k \in RequestsOf("maintenance") :
             /\ requests[k].target \in SnapshotKeys
             /\ requests[k].target \notin Range(dead_nodes)
    /\ BalancingDone =>
          \A k \in RequestsOf("balancing") : requests[k].target \in SnapshotKeys
    /\ \A k \in RequestsOf("balancing") : requests[k].target \notin EvacuatedDeadNodes

\* C20: the balancing phase makes at most one request per source node, reads
\* no node status once its loop has started, and makes at most one request
\* fewer than the snapshot has nodes.
C20_OneRequestPerSource ==
    /\ \A k, l \in RequestsOf("balancing") :
          requests[k].source = requests[l].source => k = l
    /\ \A i \in CallsOf("balancing", "status.get") :
          \A j \in DOMAIN calls :
             (calls[j].phase = "balancing" /\ calls[j].op \notin {"nodes.get", "status.get"})
                => i < j
    /\ (BalancingDone /\ metrics # <<>>) =>
          /\ Cardinality(RequestsOf("balancing")) <= Len(metrics) - 1
          /\ \A k \in RequestsOf("balancing") : requests[k].source \in SnapshotKeys

C20_Witness ==
    /\ BalancingDone
    /\ \E i \in DOMAIN vms :
          /\ vms[i].resp.ok
          /\ Len(vms[i].resp.value) = 2
          /\ \E k \in RequestsOf("balancing") :
                requests[k].source = vms[i].node /\ requests[k].posted

\* set(maintenance_nodes) raises in the handler: the one fault of the handler
\* that no try block of its own absorbs.
HandlerFaults == cfg.maintenance_nodes = None

ResourceListingFailed ==
    /\ HandlerStopped
    /\ CallsOf("maintenance", "cluster.resources.get") # {}
    /\ resources = <<>>

\* C22: a failed VM listing of an overloaded node leaves that node without
\* a request while every other overloaded node of the snapshot still has its
\* VM list fetched, and a failed resource listing leaves the handler without
\* a request; in both cases the phase returns.
C22_FailedListingIsEmpty ==
    /\ (LastPhase = "balancing" /\ \E i \in DOMAIN vms : ~vms[i].resp.ok) =>
          /\ pc = "sleep"
          /\ \A i \in DOMAIN vms :
                ~vms[i].resp.ok =>
                   \A k \in RequestsOf("balancing") : requests[k].source # vms[i].node
          /\ \A i \in DOMAIN metrics :
                metrics[i].score - LeastScore >= migration_threshold
                   => \E j \in DOMAIN vms : vms[j].node = metrics[i].node
    /\ ResourceListingFailed =>
          /\ pc = "maintenance_done"
          /\ RequestsOf("maintenance") = {}

C22_Witness ==
    /\ BalancingDone
    /\ \E i, j \in DOMAIN vms :
          /\ i < j
          /\ ~vms[i].resp.ok
          /\ \E w \in Workloads : WorkloadType(w) = "qemu" /\ host[w] = vms[i].node
          /\ \E k \in RequestsOf("balancing") :
                requests[k].source = vms[j].node /\ requests[k].posted

\* C23: a node the handler classified dead in the cycle before and that
\* reports its status in this cycle is not in this cycle's dead_nodes, is in
\* the snapshot the targets are taken from, and unless it is a maintenance
\* node none of its workloads is force-migrated.
C23_DeadSetHasNoMemory ==
    MaintenanceDone =>
        \A i \in DOMAIN status :
            (status[i].node \in was_dead /\ status[i].resp.ok) =>
                /\ status[i].node \notin Range(dead_nodes)
                /\ status[i].node \in SnapshotKeys
                /\ status[i].node \notin MaintenanceSet =>
                      \A k \in RequestsOf("maintenance") :
                         requests[k].source # status[i].node

\* The first snapshot item outside the maintenance set that no such item
\* undercuts.
FirstLeastCandidate ==
    CHOOSE i \in DOMAIN metrics :
        /\ metrics[i].node \notin MaintenanceSet
        /\ \A j \in DOMAIN metrics :
              metrics[j].node \notin MaintenanceSet =>
                 /\ metrics[i].score <= metrics[j].score
                 /\ (j < i => metrics[j].score > metrics[i].score)

\* C24: all requests of one handler pass have the same target: the snapshot
\* node outside the maintenance set with the least score and, among equal
\* scores, the one that comes first in the snapshot.
C24_OneTargetPerPass ==
    MaintenanceDone =>
        /\ \A k, l \in RequestsOf("maintenance") : requests[k].target = requests[l].target
        /\ \A k \in RequestsOf("maintenance") :
              requests[k].target = metrics[FirstLeastCandidate].node

C24_Witness ==
    /\ MaintenanceDone
    /\ Cardinality(RequestsOf("maintenance")) >= 2
    /\ \E i, j \in DOMAIN metrics :
          /\ i < j
          /\ metrics[i].node \notin MaintenanceSet
          /\ metrics[j].node \notin MaintenanceSet
          /\ metrics[i].score = metrics[j].score
          /\ \A k \in RequestsOf("maintenance") : requests[k].target = metrics[i].node

\* C25: no request has its source as its target; the sources of the
\* handler's requests are maintenance or dead nodes and its targets snapshot
\* nodes outside the maintenance set.
C25_SourceIsNotTarget ==
    /\ \A i \in DOMAIN requests : requests[i].source # requests[i].target
    /\ MaintenanceDone =>
          \A k \in RequestsOf("maintenance") :
             /\ requests[k].source \in MaintenanceSet \cup Range(dead_nodes)
             /\ requests[k].target \in SnapshotKeys \ MaintenanceSet

C25_Witness ==
    /\ MaintenanceDone
    /\ \E k \in RequestsOf("maintenance") :
          requests[k].source \in MaintenanceSet /\ requests[k].source \in SnapshotKeys
    /\ \E k \in RequestsOf("maintenance") : requests[k].source \in Range(dead_nodes)

\* With a configured node list the snapshot has nodes of that list only, and
\* gather_metrics makes no nodes.get() call (the handler makes its own one).
SnapshotWithinMonitoredList ==
    /\ SnapshotKeys \subseteq Range(cfg.nodes)
    /\ Cardinality(CallsOf("maintenance", "nodes.get")) <= 1
    /\ CallsOf("balancing", "nodes.get") = {}

\* The node is in dead_nodes and each workload still on it has a forced
\* request of this pass (a workload that left it was moved by one).
DeadAndEvacuated(n) ==
    /\ n \in Range(dead_nodes)
    /\ \A w \in Workloads :
          host[w] = n =>
             \E k \in RequestsOf("maintenance") :
                requests[k].vmid = w /\ requests[k].source = n /\ requests[k].force

\* C26 as stated: with a configured node list, the snapshot stays within it
\* without a node-list call of the collector, and every cluster node outside
\* the list is dead for the handler and evacuated whenever a candidate exists.
C26_UnmonitoredNodesEvacuated_AsStated ==
    cfg.nodes # <<>> =>
        /\ SnapshotWithinMonitoredList
        /\ (MaintenanceDone /\ SnapshotKeys \ MaintenanceSet # {}) =>
              \A n \in Nodes \ Range(cfg.nodes) : DeadAndEvacuated(n)

\* C26: with a configured node list, the snapshot stays within it without a
\* node-list call of the collector; when the handler's own node-list fetch
\* and its resource listing succeed and a candidate exists, every cluster
\* node outside the list is dead for the handler and evacuated.
C26_UnmonitoredNodesEvacuated ==
    cfg.nodes # <<>> =>
        /\ SnapshotWithinMonitoredList
        /\ ( /\ MaintenanceDone
             /\ SnapshotKeys \ MaintenanceSet # {}
             /\ all_nodes # <<>>
             /\ resources # <<>> ) =>
              \A n \in Range(all_nodes) \ Range(cfg.nodes) : DeadAndEvacuated(n)

C26_Witness ==
    /\ MaintenanceDone
    /\ cycle = MaxCycle
    /\ cfg.nodes # <<>>
    /\ Len(metrics) = Len(cfg.nodes)
    /\ \E n \in Range(all_nodes) \ Range(cfg.nodes) :
          \E k \in RequestsOf("maintenance") : requests[k].source = n /\ requests[k].posted

\* The two runs of a phase made the same API calls with the same parameters,
\* decided and submitted the same migrations, left the cluster in the same
\* state and send run_daemon to the same place.
SameRun(at, en, de) ==
    /\ en.calls = de.calls
    /\ en.requests = de.requests
    /\ en.host = de.host
    /\ run_daemon(at, en.outcome) = german_run_daemon(at, de.outcome)

\* The start of the first cycle, in every configuration and every placement
\* of the workloads; the start of a later cycle is one of these states but
\* for the cycle counter.
FirstCycleStart == pc = "maintenance" /\ cycle = 1

\* C27: for every configuration, every placement of the workloads and every
\* sequence of answers the API can give, the handlers of the English and the
\* German variant and their balancing cycles make the same calls and
\* requests and continue at the same step (the next phase, sleep, or the
\* process exit).
C27_VariantsEquivalent ==
    /\ FirstCycleStart =>
          /\ \A r1 \in NodesResponses :
             \A r2 \in (IF cfg.nodes = <<>> THEN NodesResponses ELSE {ApiError}) :
             \A sr \in StatusAnswers :
             \A rr \in ResourcesResponses(host) :
                LET en == MaintenancePlan(r1, r2, sr, rr, Frame)
                    de == german_MaintenancePlan(r1, r2, sr, rr, Frame)
                    n == IF en.proceed \/ de.proceed THEN Cardinality(Workloads) ELSE 0
                IN \A pr \in [1..n -> Results(cfg.dry_run)] :
                      SameRun("maintenance",
                              handle_maintenance_and_dead_nodes(cfg.dry_run, en, pr),
                              german_handle_maintenance_and_dead_nodes(cfg.dry_run, de, pr))
          /\ \A r2 \in (IF cfg.nodes = <<>> THEN NodesResponses ELSE {ApiError}) :
             \A sr \in StatusAnswers :
                LET gm == gather_metrics("balancing", r2, sr, calls)
                    asked == IF gm.exit THEN {} ELSE Range(Keys(gm.metrics))
                IN \A qr \in {f \in [asked -> UNION {QemuResponses(host, n) : n \in Nodes}] :
                                  \A n \in asked : f[n] \in QemuResponses(host, n)} :
                   \A pr \in [asked -> Results(cfg.dry_run)] :
                      SameRun("balancing",
                              run_balancing_cycle(cfg.dry_run, r2, sr, qr, pr, Frame),
                              german_run_balancing_cycle(cfg.dry_run, r2, sr, qr, pr, Frame))
    /\ \A at \in {"maintenance", "maintenance_done", "balancing", "sleep"} :
          run_daemon(at, "return") = german_run_daemon(at, "return")

C27_Witness ==
    /\ FirstCycleStart
    /\ cfg.nodes # <<>>
    /\ \E w \in Workloads : WorkloadType(w) = "qemu" /\ host[w] \in MaintenanceSet
    /\ \E w \in Workloads : WorkloadType(w) = "lxc" /\ host[w] \notin Range(cfg.nodes)

====
